---- MODULE Spec2Model ----
(***************************************************************************)
(* LakeHealth dashboard (app.py, app2.py, app3.py): the AOI resolver, the  *)
(* imagery query builder, the index band algebra, the threshold evaluator  *)
(* and the Streamlit render cycle main() that composes them.               *)
(*                                                                         *)
(* Numbers that the program only carries around (coordinates) are kept as  *)
(* their decimal text; numbers it computes with are exact rationals.       *)
(***************************************************************************)
EXTENDS Integers, Sequences, FiniteSets, TLC

VARIABLES
    app,             \* the script that is deployed: "app2" or "app3"
    sy, ey,          \* the two year sliders
    option,          \* the 'Boundary Source:' radio
    geojson_str,     \* the 'Paste Polygon GeoJSON:' text area
    appid,           \* the 'API Key' text input
    choice,          \* the 'Select Saved Polygon' select box
    checked,         \* the layer check boxes that are ticked
    aoi,             \* the geometry get_custom_geometry returned
    query,           \* the collection load_sentinel_collection built
    sidebar,         \* the messages written to the sidebar, in order
    page,            \* what the main page shows: map layers, legend lines
    raised,          \* the exception that left the call, or "none"
    catalog,         \* what the catalog service answered in this cycle
    calls,           \* the remote calls of the cycle, in order
    backend,         \* what the region reduction answers per index in this cycle
    means,           \* the mean value getInfo() returned per index
    alerts,          \* the indices render_sidebar_metrics found above threshold
    nimages,         \* how many images the backend holds for the query
    img,             \* the image add_fai_mci_turbidity works on
    applied,         \* how often add_fai_mci_turbidity was applied to img
    thresh           \* the thresholds mapping main hands to the summary and the legend

vars == <<app, sy, ey, option, geojson_str, appid, choice, checked, aoi, query,
          sidebar, page, raised, catalog, calls, backend, means, alerts, nimages,
          img, applied, thresh>>

-----------------------------------------------------------------------------
(* JSON documents as json.loads returns them: tagged Python values.        *)

JNull == [t |-> "null", v |-> "None"]
JNum(s) == [t |-> "num", v |-> s]
JStr(s) == [t |-> "str", v |-> s]
JList(q) == [t |-> "list", v |-> q]
JObj(r) == [t |-> "obj", v |-> r]

IsObj(j) == j.t = "obj"
IsList(j) == j.t = "list"
HasKey(j, k) == IsObj(j) /\ k \in DOMAIN j.v

(* A position [lon, lat] and a ring of positions.                          *)
Pos(x, y) == JList(<<JNum(x), JNum(y)>>)
RingOf(ps) == JList(ps)
PolygonGeom(ps) == JObj([type |-> JStr("Polygon"), coordinates |-> JList(<<RingOf(ps)>>)])

-----------------------------------------------------------------------------
(* get_default_geometry: the built-in lake boundary.                       *)

DefaultCoords ==
    << Pos("77.6392446351248", "12.921051012051585"),
       Pos("77.63899787189543", "12.920078493132383"),
       Pos("77.63889435291664", "12.919004787930328"),
       Pos("77.63891849279777", "12.918905443959652"),
       Pos("77.63897481918708", "12.918868843539448"),
       Pos("77.64090064525978", "12.918105462124162"),
       Pos("77.64099720478431", "12.918168205890122"),
       Pos("77.64158729076759", "12.918732899074577"),
       Pos("77.6439254160206", "12.921726115590571"),
       Pos("77.64401392891808", "12.921745722734912"),
       Pos("77.64406891420289", "12.92177317273437"),
       Pos("77.64409573629304", "12.921830687009194"),
       Pos("77.64408836311765", "12.921905261527495"),
       Pos("77.64500031418271", "12.92281503075012"),
       Pos("77.64506468719907", "12.92293528735337"),
       Pos("77.64503786510892", "12.923029401176393"),
       Pos("77.64451751656003", "12.923834595767756"),
       Pos("77.64441559261746", "12.923892109567786"),
       Pos("77.64130959457822", "12.923060772442854"),
       Pos("77.64042983002133", "12.923322199510041"),
       Pos("77.64032254166074", "12.923311742432603"),
       Pos("77.6392446351248", "12.921051012051585") >>

(* An ee.Geometry: its GeoJSON type and its coordinates.                   *)
EeGeometry(type, coordinates) == [type |-> type, coordinates |-> coordinates]

get_default_geometry == EeGeometry("Polygon", JList(<<RingOf(DefaultCoords)>>))

-----------------------------------------------------------------------------
(* Results of calls: the exception that left the call ("none" when it      *)
(* returned) and the value returned.                                       *)

Ret(v) == [exc |-> "none", val |-> v]
Raise(e) == [exc |-> e, val |-> JNull]

(* A text is empty, or is not JSON, or is the serialisation of a document. *)
EmptyText == [kind |-> "empty", doc |-> JNull]
GarbageText == [kind |-> "garbage", doc |-> JNull]
Dumps(j) == [kind |-> "json", doc |-> j]

json_loads(text) ==
    IF text.kind = "json" THEN Ret(text.doc) ELSE Raise("JSONDecodeError")

(* ee.Geometry._isValidCoordinates: the nesting depth of a coordinate      *)
(* list, -1 when it is not one.                                            *)
RECURSIVE isValidCoordinates(_)
isValidCoordinates(shape) ==
    IF ~IsList(shape) THEN -1
    ELSE IF Len(shape.v) > 0 /\ IsList(shape.v[1])
    THEN LET count == isValidCoordinates(shape.v[1])
         IN  IF \E i \in 2..Len(shape.v) : isValidCoordinates(shape.v[i]) # count
             THEN -1 ELSE count + 1
    ELSE IF \E i \in 1..Len(shape.v) : shape.v[i].t # "num" THEN -1
    ELSE IF Len(shape.v) % 2 = 0 THEN 1 ELSE -1

(* ee.Geometry._isValidGeometry for the types the inputs use.              *)
isValidGeometry(geom) ==
    /\ IsObj(geom)
    /\ HasKey(geom, "type")
    /\ LET nesting == IF HasKey(geom, "coordinates")
                      THEN isValidCoordinates(geom.v.coordinates) ELSE -1
           type == geom.v.type
       IN  \/ type = JStr("Point") /\ nesting = 1
           \/ type = JStr("LineString") /\ nesting = 2
           \/ type = JStr("Polygon") /\ nesting = 3

(* ee.Geometry(geo_json): the geometry with the document's type and        *)
(* coordinates, or EEException('Invalid GeoJSON geometry.').               *)
ee_Geometry(geom) ==
    IF isValidGeometry(geom)
    THEN Ret(EeGeometry(geom.v.type.v, geom.v.coordinates))
    ELSE Raise("EEException")

(* Python's  x[0]  and  x['k']  and  'features' in x  on a JSON value.     *)
Item0(x) ==
    CASE x.t = "list" -> IF Len(x.v) > 0 THEN Ret(x.v[1]) ELSE Raise("IndexError")
      [] x.t = "str" -> IF x.v # "" THEN Ret(JStr("c")) ELSE Raise("IndexError")
      [] x.t = "obj" -> Raise("KeyError")
      [] OTHER -> Raise("TypeError")

ItemKey(x, k) ==
    CASE x.t = "obj" -> IF k \in DOMAIN x.v THEN Ret(x.v[k]) ELSE Raise("KeyError")
      [] OTHER -> Raise("TypeError")

Contains(x, s) ==
    CASE x.t = "obj" -> Ret(s \in DOMAIN x.v)
      [] x.t = "list" -> Ret(\E i \in 1..Len(x.v) : x.v[i] = JStr(s))
      [] x.t = "str" -> Ret(x.v = s)
      [] OTHER -> Raise("TypeError")

(* Python's  'features' in x  on a string is a substring test; the only    *)
(* strings among the documents are "features" and strings without it.      *)

(* ExtractGeom3_NoDefault: gj.get('geometry') without the default gj.       *)
ExtractGeom3_NoDefault(gj) ==
    LET has == Contains(gj, "features")
    IN  IF has.exc # "none" THEN Raise(has.exc)
        ELSE IF ~IsObj(gj) THEN Raise("AttributeError")
        ELSE IF has.val
        THEN LET first == Item0(gj.v.features)
             IN  IF first.exc # "none" THEN Raise(first.exc)
                 ELSE ItemKey(first.val, "geometry")
        ELSE IF "geometry" \in DOMAIN gj.v THEN Ret(gj.v.geometry) ELSE Ret(JNull)

(* app3.py 80-81:  gj.get('features')[0]['geometry'] if 'features' in gj   *)
(*                 else gj.get('geometry', gj)                             *)
ExtractGeom3(gj) ==
    LET has == Contains(gj, "features")
    IN  IF has.exc # "none" THEN Raise(has.exc)
        ELSE IF ~IsObj(gj) THEN Raise("AttributeError")
        ELSE IF has.val
        THEN LET first == Item0(gj.v.features)
             IN  IF first.exc # "none" THEN Raise(first.exc)
                 ELSE ItemKey(first.val, "geometry")
        ELSE IF "geometry" \in DOMAIN gj.v THEN Ret(gj.v.geometry) ELSE Ret(gj)

(* app2.py 56-61:  if 'features' in geojson: geojson['features'][0]['geometry'] *)
(*                 elif 'geometry' in geojson: geojson['geometry']         *)
(*                 else: geojson                                           *)
ExtractGeom2(geojson) ==
    LET has == Contains(geojson, "features")
        hasg == Contains(geojson, "geometry")
    IN  IF has.exc # "none" THEN Raise(has.exc)
        ELSE IF has.val
        THEN LET feats == ItemKey(geojson, "features")
                 first == Item0(feats.val)
             IN  IF feats.exc # "none" THEN Raise(feats.exc)
                 ELSE IF first.exc # "none" THEN Raise(first.exc)
                 ELSE ItemKey(first.val, "geometry")
        ELSE IF hasg.val THEN ItemKey(geojson, "geometry")
        ELSE Ret(geojson)

ExtractGeom(a, gj) == IF a = "app2" THEN ExtractGeom2(gj) ELSE ExtractGeom3(gj)

-----------------------------------------------------------------------------
(* The saved-polygon catalog (app3.py only).                               *)

(* What requests.get comes back with: no connection, or a response with a  *)
(* status and a body.                                                      *)
Unreachable == [kind |-> "unreachable", status |-> 0, body |-> EmptyText]
Response(status, body) == [kind |-> "response", status |-> status, body |-> body]

(* list_polygons_api: requests.get, raise_for_status, resp.json().         *)
list_polygons_api(resp) ==
    IF resp.kind = "unreachable" THEN Raise("ConnectionError")
    ELSE IF resp.status >= 400 THEN Raise("HTTPError")
    ELSE json_loads(resp.body)

(* p['name'] + ' (' + p['id'] + ')'  for one record of the catalog.        *)
PolygonName(p) ==
    LET name == ItemKey(p, "name")
        id == ItemKey(p, "id")
    IN  IF name.exc # "none" THEN Raise(name.exc)
        ELSE IF id.exc # "none" THEN Raise(id.exc)
        ELSE IF name.val.t # "str" \/ id.val.t # "str" THEN Raise("TypeError")
        ELSE Ret(name.val.v \o " (" \o id.val.v \o ")")

(* [PolygonName(p) for p in polygons]: the names, or the first exception.  *)
PolygonNames(polygons) ==
    IF ~IsList(polygons) THEN Raise("TypeError")
    ELSE LET n == Len(polygons.v)
             bad == {i \in 1..n : PolygonName(polygons.v[i]).exc # "none"}
         IN  IF bad # {}
             THEN Raise(PolygonName(polygons.v[CHOOSE i \in bad : \A j \in bad : i <= j]).exc)
             ELSE Ret([i \in 1..n |-> PolygonName(polygons.v[i]).val])

NoneChoice == "--None--"

(* The options the select box offers for a response.                       *)
SelectOptions(resp) ==
    LET polygons == list_polygons_api(resp)
        names == IF polygons.exc = "none" THEN PolygonNames(polygons.val) ELSE polygons
    IN  IF names.exc = "none" THEN <<NoneChoice>> \o names.val ELSE <<>>

(* The select box returns the stored choice if it is still offered, and    *)
(* its first option otherwise.                                             *)
Selected(options, ch) ==
    IF \E i \in 1..Len(options) : options[i] = ch THEN ch ELSE options[1]

(* names.index(choice): the first position holding the choice.             *)
IndexOf(names, ch) == CHOOSE i \in 1..Len(names) : names[i] = ch /\ \A j \in 1..(i-1) : names[j] # ch

(* get_polygon_from_api: the geometry of the chosen record, None (JNull)   *)
(* when '--None--' is chosen.                                              *)
get_polygon_from_api(resp, ch) ==
    LET polygons == list_polygons_api(resp)
        names == PolygonNames(polygons.val)
        sel == Selected(<<NoneChoice>> \o names.val, ch)
        rec == polygons.val.v[IndexOf(names.val, sel)]
        gj == ItemKey(rec, "geo_json")
        geom == ItemKey(gj.val, "geometry")
    IN  IF polygons.exc # "none" THEN Raise(polygons.exc)
        ELSE IF names.exc # "none" THEN Raise(names.exc)
        ELSE IF sel = NoneChoice THEN Ret(JNull)
        ELSE IF gj.exc # "none" THEN Raise(gj.exc)
        ELSE IF geom.exc # "none" THEN Raise(geom.exc)
        ELSE ee_Geometry(geom.val)

-----------------------------------------------------------------------------
(* get_custom_geometry: the AOI of the cycle.                              *)

Msg(kind, text) == [kind |-> kind, text |-> text]

(* What a call leaves behind: the exception that left it, the geometry it  *)
(* returned, the sidebar messages it wrote and the remote calls it made.   *)
Outcome(exc, geom, msgs, reqs) == [exc |-> exc, val |-> geom, msgs |-> msgs, reqs |-> reqs]

(* The try block (app3.py 78-85, app2.py 53-65).                           *)
ParseGeometry(a, text) ==
    LET gj == json_loads(text)
        geom == ExtractGeom(a, gj.val)
    IN  IF gj.exc # "none" THEN Raise(gj.exc)
        ELSE IF geom.exc # "none" THEN Raise(geom.exc)
        ELSE ee_Geometry(geom.val)

(* Every exception the calls above raise derives from Exception.           *)
Exceptions == {"JSONDecodeError", "TypeError", "AttributeError", "IndexError",
               "KeyError", "EEException", "ConnectionError", "HTTPError"}

(* Caught_ValueErrorOnly: a handler that names the parse error alone.      *)
Caught_ValueErrorOnly(a, exc) == exc = "JSONDecodeError"

(* The handler of the try block:  except:  (app3.py 83) catches whatever   *)
(* is raised,  except Exception as e:  (app2.py 63) every Exception.       *)
Caught(a, exc) == IF a = "app2" THEN exc \in Exceptions ELSE TRUE

InvalidMsg(a, exc) ==
    IF a = "app2" THEN Msg("error", "Invalid GeoJSON: " \o exc)
    ELSE Msg("error", "Invalid GeoJSON input.")

get_custom_geometry(a, opt, text, key, resp, ch) ==
    LET head == <<Msg("markdown", "## AOI Selection")>>
        parsed == ParseGeometry(a, text)
        saved == get_polygon_from_api(resp, ch)
    IN  IF opt = "Custom GeoJSON"
        THEN IF text # EmptyText
             THEN IF parsed.exc = "none"
                  THEN Outcome("none", parsed.val, head, <<>>)
                  ELSE IF Caught(a, parsed.exc)
                  THEN Outcome("none", get_default_geometry,
                               head \o <<InvalidMsg(a, parsed.exc)>>, <<>>)
                  ELSE Outcome(parsed.exc, JNull, head, <<>>)
             ELSE IF a = "app2"
             THEN Outcome("none", get_default_geometry,
                          head \o <<Msg("info", "Awaiting GeoJSON input...")>>, <<>>)
             ELSE Outcome("none", get_default_geometry, head, <<>>)
        ELSE IF a = "app3" /\ opt = "Saved Polygon" /\ key # ""
        THEN IF saved.exc # "none"
             THEN Outcome(saved.exc, JNull, head, <<"polygons">>)
             ELSE IF saved.val # JNull
             THEN Outcome("none", saved.val, head, <<"polygons">>)
             ELSE Outcome("none", get_default_geometry,
                          head \o <<Msg("info", "No saved polygon selected, using default.")>>,
                          <<"polygons">>)
        ELSE Outcome("none", get_default_geometry, head, <<>>)

-----------------------------------------------------------------------------
(* Pixel values: exact rationals n/d in lowest terms, d > 0.               *)

Abs(x) == IF x < 0 THEN -x ELSE x

RECURSIVE GCD(_, _)
GCD(a, b) == IF b = 0 THEN a ELSE GCD(b, a % b)

Rat(n, d) ==
    LET s == IF d < 0 THEN -1 ELSE 1
        g == GCD(Abs(n), Abs(d))
    IN  [n |-> (s * n) \div g, d |-> (s * d) \div g]

Num(k) == [n |-> k, d |-> 1]
RAdd(a, b) == Rat(a.n * b.d + b.n * a.d, a.d * b.d)
RSub(a, b) == Rat(a.n * b.d - b.n * a.d, a.d * b.d)
RMul(a, b) == Rat(a.n * b.n, a.d * b.d)
(* ee.Image.divide returns 0 where the divisor is 0.                       *)
RDiv(a, b) == IF b.n = 0 THEN Num(0) ELSE Rat(a.n * b.d, a.d * b.n)

-----------------------------------------------------------------------------
(* ee.Image at one pixel: its bands in order, each a name and a value.     *)

Band(name, val) == [name |-> name, val |-> val]
BandNames(image) == {image[i].name : i \in 1..Len(image)}

(* image.select(name): the one-band image of that band.                    *)
select(image, name) ==
    LET i == CHOOSE k \in 1..Len(image) : image[k].name = name
    IN  <<image[i]>>

(* Band-wise arithmetic: image with a number, one-band image with a        *)
(* one-band image (the result keeps the left operand's band name).         *)
divideBy(image, k) == [i \in 1..Len(image) |-> Band(image[i].name, RDiv(image[i].val, Num(k)))]
multiplyBy(image, k) == [i \in 1..Len(image) |-> Band(image[i].name, RMul(image[i].val, Num(k)))]
add(a, b) == <<Band(a[1].name, RAdd(a[1].val, b[1].val))>>
subtract(a, b) == <<Band(a[1].name, RSub(a[1].val, b[1].val))>>
divide(a, b) == <<Band(a[1].name, RDiv(a[1].val, b[1].val))>>
rename(a, name) == <<Band(name, a[1].val)>>

(* normalize (app3.py 110-111, app2.py 89-91).                             *)
normalize(image) == divideBy(image, 10000)

(* ExprDiv_Integer: '/' taken as a division of integers.                   *)
ExprDiv_Integer(a, b) == Num((a.n \div a.d) \div (b.n \div b.d))

(* '/' in an image expression: the quotient of two numbers.                *)
ExprDiv(a, b) == RDiv(a, b)

(* The expression  b5-b4-(b6-b4)*((705-665)/(740-665)).                    *)
MciExpression(b4, b5, b6) ==
    <<Band("constant",
           RSub(RSub(b5[1].val, b4[1].val),
                RMul(RSub(b6[1].val, b4[1].val),
                     ExprDiv(RSub(Num(705), Num(665)), RSub(Num(740), Num(665))))))>>

(* The name a band gets when added without overwrite: its own, or the      *)
(* first of name_1, name_2, ... that is free.                              *)
RECURSIVE FreeName(_, _, _)
FreeName(names, name, k) ==
    LET candidate == name \o "_" \o ToString(k)
    IN  IF candidate \in names THEN FreeName(names, name, k + 1) ELSE candidate

(* addBands_Overwrite: addBands with overwrite=True.                       *)
RECURSIVE addBands_Overwrite(_, _)
addBands_Overwrite(dst, src) ==
    IF src = <<>> THEN dst
    ELSE LET b == Head(src)
             merged == IF b.name \in BandNames(dst)
                       THEN [i \in 1..Len(dst) |-> IF dst[i].name = b.name THEN b ELSE dst[i]]
                       ELSE Append(dst, b)
         IN  addBands_Overwrite(merged, Tail(src))

(* image.addBands(srcImg) with the default overwrite=False.                *)
RECURSIVE addBands(_, _)
addBands(dst, src) ==
    IF src = <<>> THEN dst
    ELSE LET b == Head(src)
             name == IF b.name \in BandNames(dst)
                     THEN FreeName(BandNames(dst), b.name, 1) ELSE b.name
         IN  addBands(Append(dst, Band(name, b.val)), Tail(src))

(* add_fai_mci_turbidity_Normalized: the bands are added to the            *)
(* normalized image instead of the input.                                  *)
add_fai_mci_turbidity_Normalized(image) ==
    LET norm == normalize(image)
        red == select(norm, "B4")
        nir == select(norm, "B8")
        swir == select(norm, "B11")
        base == add(red, divideBy(multiplyBy(subtract(swir, red), 842 - 665), 1610 - 665))
        fai == rename(subtract(nir, base), "FAI")
        mci == rename(MciExpression(select(norm, "B4"), select(norm, "B5"), select(norm, "B6")),
                      "MCI")
        turb == rename(divide(select(norm, "B11"), select(norm, "B4")), "Turbidity")
    IN  addBands(norm, fai \o mci \o turb)

(* add_fai_mci_turbidity (app3.py 114-122, app2.py 94-109).                *)
add_fai_mci_turbidity(image) ==
    LET norm == normalize(image)
        red == select(norm, "B4")
        nir == select(norm, "B8")
        swir == select(norm, "B11")
        base == add(red, divideBy(multiplyBy(subtract(swir, red), 842 - 665), 1610 - 665))
        fai == rename(subtract(nir, base), "FAI")
        mci == rename(MciExpression(select(norm, "B4"), select(norm, "B5"), select(norm, "B6")),
                      "MCI")
        turb == rename(divide(select(norm, "B11"), select(norm, "B4")), "Turbidity")
    IN  addBands(image, fai \o mci \o turb)

-----------------------------------------------------------------------------
(* load_sentinel_collection (app3.py 97-105, app2.py 75-84, app.py 41-44): *)
(* the filtered collection, as the description the backend receives.       *)

Date(y, m, d) == [year |-> y, month |-> m, day |-> d]

(* load_sentinel_collection_NextYear: the window closed on January 1 of    *)
(* the year after the end year.                                            *)
load_sentinel_collection_NextYear(geom, start_year, end_year) ==
    [collection |-> "COPERNICUS/S2",
     bounds |-> geom,
     start |-> Date(start_year, 1, 1),
     end |-> Date(end_year + 1, 1, 1),
     filter |-> [op |-> "lt", property |-> "CLOUDY_PIXEL_PERCENTAGE", value |-> 10]]

load_sentinel_collection(geom, start_year, end_year) ==
    [collection |-> "COPERNICUS/S2",
     bounds |-> geom,
     start |-> Date(start_year, 1, 1),
     end |-> Date(end_year, 12, 31),
     filter |-> [op |-> "lt", property |-> "CLOUDY_PIXEL_PERCENTAGE", value |-> 10]]

-----------------------------------------------------------------------------
(* The sidebar summary.  Mean values and thresholds are in units of        *)
(* 1/10000: 500 is 0.05.                                                   *)

thresholds == [FAI |-> 500, MCI |-> 200, Turbidity |-> 18000]

(* What compute_mean_value comes to for one index: the float, or the       *)
(* exception of getInfo() (EEException) or of float(None) (TypeError).     *)
Mean(v) == [exc |-> "none", val |-> v]
MeanFault(e) == [exc |-> e, val |-> 0]

(* ', '.join(names) in app2, ','.join(names) in app3.                      *)
RECURSIVE Join(_, _)
Join(names, sep) ==
    IF names = <<>> THEN ""
    ELSE IF Len(names) = 1 THEN names[1]
    ELSE names[1] \o sep \o Join(Tail(names), sep)

Metrics(exc, msgs, found, vals, reqs) ==
    [exc |-> exc, msgs |-> msgs, alerts |-> found, means |-> vals, reqs |-> reqs]

(* Exceeds_OrEqual: the comparison written >=.                             *)
Exceeds_OrEqual(v, limit) == v >= limit

(* v > thresholds[k]                                                       *)
Exceeds(v, limit) == v > limit

(* MetricsLoop_SkipsFault: a loop that passes over an index whose mean     *)
(* could not be had and goes on with the next.                             *)
RECURSIVE MetricsLoop_SkipsFault(_, _, _, _, _)
MetricsLoop_SkipsFault(selected, answers, limits, i, acc) ==
    IF i > Len(selected) THEN acc
    ELSE LET k == selected[i]
             v == answers[k]
             asked == Append(acc.reqs, "mean:" \o k)
             line == Append(acc.msgs, Msg("markdown", "- **" \o k \o " Mean:**"))
         IN  IF v.exc # "none"
             THEN MetricsLoop_SkipsFault(selected, answers, limits, i + 1,
                      Metrics("none", acc.msgs, acc.alerts, acc.means, asked))
             ELSE IF k \notin DOMAIN limits
             THEN Metrics("KeyError", line, acc.alerts, acc.means @@ (k :> v.val), asked)
             ELSE MetricsLoop_SkipsFault(selected, answers, limits, i + 1,
                      Metrics("none", line,
                              IF v.val > limits[k] THEN Append(acc.alerts, k)
                              ELSE acc.alerts,
                              acc.means @@ (k :> v.val), asked))

(* MetricsLoop_Retries: a loop that asks a second time for a mean that     *)
(* could not be had before it gives up.                                    *)
RECURSIVE MetricsLoop_Retries(_, _, _, _, _)
MetricsLoop_Retries(selected, answers, limits, i, acc) ==
    IF i > Len(selected) THEN acc
    ELSE LET k == selected[i]
             v == answers[k]
             asked == Append(acc.reqs, "mean:" \o k)
             line == Append(acc.msgs, Msg("markdown", "- **" \o k \o " Mean:**"))
         IN  IF v.exc # "none"
             THEN Metrics(v.exc, acc.msgs, acc.alerts, acc.means, Append(asked, "mean:" \o k))
             ELSE IF k \notin DOMAIN limits
             THEN Metrics("KeyError", line, acc.alerts, acc.means @@ (k :> v.val), asked)
             ELSE MetricsLoop_Retries(selected, answers, limits, i + 1,
                      Metrics("none", line,
                              IF v.val > limits[k] THEN Append(acc.alerts, k)
                              ELSE acc.alerts,
                              acc.means @@ (k :> v.val), asked))

(* The loop of render_sidebar_metrics from position i on, with what the    *)
(* earlier rounds left in acc.                                             *)
RECURSIVE MetricsLoop(_, _, _, _, _)
MetricsLoop(selected, answers, limits, i, acc) ==
    IF i > Len(selected) THEN acc
    ELSE LET k == selected[i]
             v == answers[k]
             asked == Append(acc.reqs, "mean:" \o k)
             line == Append(acc.msgs, Msg("markdown", "- **" \o k \o " Mean:**"))
         IN  IF v.exc # "none"
             THEN Metrics(v.exc, acc.msgs, acc.alerts, acc.means, asked)
             ELSE IF k \notin DOMAIN limits
             THEN Metrics("KeyError", line, acc.alerts, acc.means @@ (k :> v.val), asked)
             ELSE MetricsLoop(selected, answers, limits, i + 1,
                      Metrics("none", line,
                              IF Exceeds(v.val, limits[k]) THEN Append(acc.alerts, k)
                              ELSE acc.alerts,
                              acc.means @@ (k :> v.val), asked))

(* The two verdict messages: st.sidebar.error (app3.py 155, app2.py 172)   *)
(* and st.sidebar.success (app3.py 156, app2.py 174).                      *)
AlertMsg(a, found) ==
    IF a = "app2" THEN Msg("error", "Alert: " \o Join(found, ", ") \o " above safe levels!")
    ELSE Msg("error", "Alert:" \o Join(found, ",") \o " above safe levels!")
AllClearMsg == Msg("success", "All metrics within safe limits")

(* render_sidebar_metrics_NoElse: the all-clear written after the loop     *)
(* whether or not there was an alert.                                      *)
render_sidebar_metrics_NoElse(a, selected, answers, limits) ==
    LET head == <<Msg("markdown", "## Water Quality Summary")>>
        done == MetricsLoop(selected, answers, limits, 1, Metrics("none", head, <<>>, <<>>, <<>>))
        verdict == IF done.alerts # <<>> THEN <<AlertMsg(a, done.alerts), AllClearMsg>>
                   ELSE <<AllClearMsg>>
    IN  IF done.exc # "none" THEN done
        ELSE Metrics("none", done.msgs \o verdict, done.alerts, done.means, done.reqs)

(* render_sidebar_metrics (app3.py 148-156, app2.py 163-174).              *)
render_sidebar_metrics(a, selected, answers, limits) ==
    LET head == <<Msg("markdown", "## Water Quality Summary")>>
        done == MetricsLoop(selected, answers, limits, 1, Metrics("none", head, <<>>, <<>>, <<>>))
        verdict == IF done.alerts # <<>> THEN AlertMsg(a, done.alerts) ELSE AllClearMsg
    IN  IF done.exc # "none" THEN done
        ELSE Metrics("none", Append(done.msgs, verdict), done.alerts, done.means, done.reqs)

-----------------------------------------------------------------------------
(* The first script, app.py: no selection of indices, the means of FAI and *)
(* MCI shown on the page and the alert block after them (app.py 103-121).  *)

threshold_fai == 500
threshold_mci == 200

BloomMsg == Msg("markdown", "### Alert: Algae Bloom Detected")
AboveMsg(k) == Msg("markdown", "- **" \o k \o "** is above safe level")
SafeMsg == Msg("success", "Water quality appears within safe limits based on FAI and MCI.")

(* if fai_val > threshold_fai or mci_val > threshold_mci: ... else: ...    *)
alert_block(fai_val, mci_val) ==
    IF fai_val > threshold_fai \/ mci_val > threshold_mci
    THEN <<BloomMsg>>
           \o (IF fai_val > threshold_fai THEN <<AboveMsg("FAI")>> ELSE <<>>)
           \o (IF mci_val > threshold_mci THEN <<AboveMsg("MCI")>> ELSE <<>>)
    ELSE <<SafeMsg>>

(* app.py 104-121: the two getInfo() calls, the two mean lines (a None     *)
(* fails in the format  {fai_val:.4f}  with TypeError), the alert block.   *)
show_means(answers) ==
    LET fai == answers["FAI"]
        mci == answers["MCI"]
        both == <<"mean:FAI", "mean:MCI">>
        head == <<Msg("subheader", "Algal Bloom Detection")>>
        lines == <<Msg("markdown", "**FAI Mean:**"), Msg("markdown", "**MCI Mean:**")>>
    IN  IF fai.exc = "EEException" THEN Metrics("EEException", <<>>, <<>>, <<>>, <<"mean:FAI">>)
        ELSE IF mci.exc = "EEException" THEN Metrics("EEException", <<>>, <<>>, <<>>, both)
        ELSE IF fai.exc # "none" THEN Metrics(fai.exc, head, <<>>, <<>>, both)
        ELSE IF mci.exc # "none"
        THEN Metrics(mci.exc, head \o <<lines[1]>>, <<>>, "FAI" :> fai.val, both)
        ELSE Metrics("none", head \o lines \o alert_block(fai.val, mci.val), <<>>,
                     ("FAI" :> fai.val) @@ ("MCI" :> mci.val), both)

-----------------------------------------------------------------------------
(* The inputs: what the user can type and what the services can answer.    *)

MaxRing == 4

Apps == {"app2", "app3"}
Layers == <<"FAI", "MCI", "Turbidity">>
AllLayers == {Layers[i] : i \in 1..Len(Layers)}

RadioOptions(a) ==
    IF a = "app2" THEN {"Default Lake", "Custom GeoJSON"}
    ELSE {"Default Lake", "Custom GeoJSON", "Saved Polygon"}

AppIds == {"", "key"}

Positions == {Pos("0", "0"), Pos("1", "0"), Pos("1", "1")}
Rings == UNION {[1..n -> Positions] : n \in 3..MaxRing}

(* The shapes a polygon can be pasted in.                                  *)
Feature(geom) == JObj([type |-> JStr("Feature"), properties |-> JObj(<<>>), geometry |-> geom])
FeatureCollection(geom) ==
    JObj([type |-> JStr("FeatureCollection"), features |-> JList(<<Feature(geom)>>)])
PolygonDocs(ps) == {PolygonGeom(ps), Feature(PolygonGeom(ps)), FeatureCollection(PolygonGeom(ps))}

PointGeom == JObj([type |-> JStr("Point"), coordinates |-> Pos("0", "0")])
LineGeom == JObj([type |-> JStr("LineString"),
                  coordinates |-> JList(<<Pos("0", "0"), Pos("1", "1")>>)])
OtherGeometryDocs == {PointGeom, Feature(PointGeom), FeatureCollection(PointGeom), LineGeom}

(* Documents that are JSON but hold no geometry.                           *)
MalformedDocs ==
    { JNum("42"), JNull, JStr("features"), JStr("abc"),
      JList(<<>>), JList(<<JNum("1"), JNum("2")>>), JList(<<JStr("features")>>),
      JObj(<<>>),
      JObj([features |-> JList(<<>>)]),
      JObj([features |-> JNum("5")]),
      JObj([features |-> JList(<<JNum("5")>>)]),
      JObj([features |-> JList(<<JObj([properties |-> JObj(<<>>)])>>)]),
      JObj([type |-> JStr("Feature"), geometry |-> JNull]),
      JObj([type |-> JStr("Polygon")]),
      JObj([type |-> JStr("Circle"), coordinates |-> Pos("0", "0")]),
      JObj([type |-> JStr("Polygon"), coordinates |-> JStr("abc")]) }

MalformedTexts == {GarbageText} \cup {Dumps(d) : d \in MalformedDocs}
PolygonTexts == {Dumps(d) : d \in UNION {PolygonDocs(ps) : ps \in Rings}}
Texts == {EmptyText} \cup MalformedTexts \cup PolygonTexts
             \cup {Dumps(d) : d \in OtherGeometryDocs}

(* The catalog's records and answers.                                      *)
PolygonRecord(name, id, geom) ==
    JObj([id |-> JStr(id), name |-> JStr(name), geo_json |-> Feature(geom)])

ClosedSquare == <<Pos("0", "0"), Pos("1", "0"), Pos("1", "1"), Pos("0", "0")>>
OpenTriangle == <<Pos("0", "0"), Pos("1", "0"), Pos("1", "1")>>

CatalogDocs ==
    { JList(<<>>),
      JList(<<PolygonRecord("lake", "p1", PolygonGeom(ClosedSquare)),
              PolygonRecord("pond", "p2", PolygonGeom(OpenTriangle))>>),
      JList(<<PolygonRecord("buoy", "p3", PointGeom)>>),
      JList(<<PolygonRecord("void", "p4", JObj(<<>>))>>),
      JList(<<JObj([id |-> JStr("p5"), name |-> JStr("bare")])>>),
      JList(<<JObj([id |-> JStr("p6")])>>),
      JObj([message |-> JStr("Invalid API key")]) }

NotRequested == [kind |-> "none", status |-> 0, body |-> EmptyText]

Responses ==
    {Unreachable, Response(401, Dumps(JObj([message |-> JStr("Invalid API key")]))),
     Response(500, GarbageText), Response(200, GarbageText)}
        \cup {Response(200, Dumps(d)) : d \in CatalogDocs}

(* Whether get_custom_geometry asks the catalog (app3.py 86).              *)
Fetches(a, opt, key) == a = "app3" /\ opt = "Saved Polygon" /\ key # ""

(* What the select box can be set to when the catalog answered resp.       *)
Choices(resp) ==
    LET options == SelectOptions(resp)
    IN  {NoneChoice} \cup {options[i] : i \in 1..Len(options)}

-----------------------------------------------------------------------------
(* The state before the script has run: every widget at its default.       *)

MinYear == 2016
MaxYear == 2024
DefaultStart == 2020

(* EndYearRange_FromMin: the end slider given the fixed lower bound.       *)
EndYearRange_FromMin(start) == MinYear..MaxYear

(* The values the two sliders offer: slider('Start Year',2016,2024,2020)   *)
(* and slider('End Year',sy,2024,2024).                                    *)
StartYearRange == MinYear..MaxYear
EndYearRange(start) == start..MaxYear

NoQuery == [collection |-> "none"]
NoImage == <<>>
NoAnswers == <<>>

Init ==
    /\ app \in Apps
    /\ sy = DefaultStart
    /\ ey = MaxYear
    /\ option = "Default Lake"
    /\ geojson_str = EmptyText
    /\ appid = ""
    /\ choice = NoneChoice
    /\ checked = AllLayers
    /\ aoi = JNull
    /\ query = NoQuery
    /\ sidebar = <<>>
    /\ page = <<>>
    /\ raised = "none"
    /\ catalog = NotRequested
    /\ calls = <<>>
    /\ backend = NoAnswers
    /\ means = <<>>
    /\ alerts = <<>>
    /\ nimages = 0
    /\ img = NoImage
    /\ applied = 0
    /\ thresh = thresholds

-----------------------------------------------------------------------------
(* main() of app3.py (161-180) and app2.py (179-210): one run of the       *)
(* script, top to bottom, on the widget values of the moment.              *)

MaxImages == 1

SelectedLayers(ticked) == SelectSeq(Layers, LAMBDA l : l \in ticked)

(* display_layers: one layer per selected index, the boundary, the map.    *)
display_layers(selected) ==
    [i \in 1..Len(selected) |-> Msg("layer", selected[i] \o " Index")]
        \o <<Msg("layer", "Boundary"), Msg("map", "to_streamlit")>>

(* describe_legends: one line per entry of vis_params; app3 reads          *)
(* thresholds[k] (app3.py 145), app2 thresholds.get(key, 'N/A') (app2.py   *)
(* 157).                                                                   *)
describe_legends(a, vis, limits) ==
    LET missing == {i \in 1..Len(vis) : vis[i] \notin DOMAIN limits}
        head == <<Msg("markdown", "### Legends & Thresholds")>>
        upto == IF missing = {} \/ a = "app2" THEN Len(vis)
                ELSE (CHOOSE i \in missing : \A j \in missing : i <= j) - 1
        label == IF a = "app2" THEN ": Alert if > " ELSE ": Alert > "
    IN  [exc |-> IF upto < Len(vis) THEN "KeyError" ELSE "none",
         msgs |-> head \o [i \in 1..upto |->
                     Msg("legend", vis[i] \o label
                            \o (IF vis[i] \in DOMAIN limits THEN ToString(limits[vis[i]]) ELSE "N/A"))]]

Title == Msg("title", "LakeHealth Dashboard")
Traceback(exc) == Msg("exception", exc)

(* The texts and catalog answers the render cycle is run on.               *)
CycleTexts == {GarbageText, Dumps(Feature(PolygonGeom(ClosedSquare)))}
CycleResponses ==
    {Unreachable, Response(200, Dumps(JList(<<>>))),
     Response(200, Dumps(JList(<<PolygonRecord("lake", "p1", PolygonGeom(ClosedSquare)),
                                 PolygonRecord("pond", "p2", PolygonGeom(OpenTriangle))>>)))}

(* What the region reduction can answer for an index: a mean above the     *)
(* threshold, a fault of the backend (getInfo raises EEException) or no    *)
(* value (float(None) raises TypeError).                                   *)
CycleAnswers(k) ==
    {Mean(thresholds[k] + 1), MeanFault("EEException"), MeanFault("TypeError")}

(* The years the sliders are moved to in the full cycle.                   *)
SliderStops == {DefaultStart, MaxYear}

(* The answers to the calls of one cycle.  The script stops at the first   *)
(* fault, so the indices after it are given the same answer; on an empty   *)
(* collection the backend fails every call.                                *)
AnswerTables(selected, n) ==
    {t \in [{selected[i] : i \in 1..Len(selected)} -> UNION {CycleAnswers(k) : k \in AllLayers}] :
        /\ \A i \in 1..Len(selected) : t[selected[i]] \in CycleAnswers(selected[i])
        /\ \A i, j \in 1..Len(selected) :
              (i < j /\ t[selected[i]].exc # "none") => t[selected[j]] = t[selected[i]]
        /\ n = 0 => \A i \in 1..Len(selected) : t[selected[i]] = MeanFault("EEException")}

(* One run of main on the given widget values: out is what                 *)
(* get_custom_geometry came to, answers what the region reduction answers. *)
Render(nsy, ney, nopt, ntext, nkey, nch, nticked, resp, out, answers, n) ==
    \E m \in {IF out.exc = "none"
               THEN render_sidebar_metrics(app, SelectedLayers(nticked), answers, thresh)
               ELSE Metrics(out.exc, <<>>, <<>>, <<>>, <<>>)} :
      \E legend \in {describe_legends(app, Layers, thresh)} :
        /\ sy' = nsy
        /\ ey' = ney
        /\ option' = nopt
        /\ geojson_str' = ntext
        /\ appid' = nkey
        /\ choice' = IF Fetches(app, nopt, nkey) /\ SelectOptions(resp) # <<>>
                     THEN Selected(SelectOptions(resp), nch) ELSE NoneChoice
        /\ checked' = IF out.exc = "none" THEN nticked ELSE AllLayers
        /\ catalog' = resp
        /\ backend' = answers
        /\ nimages' = n
        /\ aoi' = out.val
        /\ IF out.exc # "none"
           THEN /\ query' = NoQuery
                /\ sidebar' = out.msgs
                /\ page' = <<Title, Traceback(out.exc)>>
                /\ raised' = out.exc
                /\ calls' = out.reqs
                /\ means' = <<>>
                /\ alerts' = <<>>
           ELSE /\ query' = load_sentinel_collection(out.val, nsy, ney)
                /\ sidebar' = out.msgs \o <<Msg("markdown", "## Select Layers")>> \o m.msgs
                /\ calls' = out.reqs \o m.reqs
                /\ means' = m.means
                /\ alerts' = m.alerts
                /\ IF m.exc # "none"
                   THEN /\ page' = <<Title, Traceback(m.exc)>>
                        /\ raised' = m.exc
                   ELSE /\ page' = <<Title>> \o display_layers(SelectedLayers(nticked))
                                      \o legend.msgs
                                      \o (IF legend.exc # "none"
                                          THEN <<Traceback(legend.exc)>> ELSE <<>>)
                        /\ raised' = legend.exc
        /\ UNCHANGED <<app, img, applied, thresh>>

(* One run of the script on the given widget values, with whatever the     *)
(* services answer.                                                        *)
Cycle(nsy, ney, nopt, ntext, nkey, nch, nticked) ==
    \E resp \in IF Fetches(app, nopt, nkey) THEN CycleResponses ELSE {NotRequested} :
      \E out \in {get_custom_geometry(app, nopt, ntext, nkey, resp, nch)} :
        \E n \in 0..MaxImages :
          \E answers \in IF out.exc = "none"
                         THEN AnswerTables(SelectedLayers(nticked), n) ELSE {NoAnswers} :
              Render(nsy, ney, nopt, ntext, nkey, nch, nticked, resp, out, answers, n)

(* The user's events; Streamlit runs the script again after each.  A       *)
(* widget that a run does not reach, or that is created with other         *)
(* arguments, starts from its default.                                     *)
Rerun == Cycle(sy, ey, option, geojson_str, appid, choice, checked)

SetStartYear ==
    \E y \in (StartYearRange \cap SliderStops) \ {sy} :
        Cycle(y, MaxYear, option, geojson_str, appid, choice, checked)

SetEndYear ==
    \E y \in (EndYearRange(sy) \cap SliderStops) \ {ey} :
        Cycle(sy, y, option, geojson_str, appid, choice, checked)

SetOption ==
    \E o \in RadioOptions(app) \ {option} :
        Cycle(sy, ey, o, EmptyText, appid, NoneChoice, checked)

SetText ==
    /\ option = "Custom GeoJSON"
    /\ \E t \in (CycleTexts \cup {EmptyText}) \ {geojson_str} :
          Cycle(sy, ey, option, t, appid, choice, checked)

SetAppId ==
    /\ app = "app3"
    /\ \E k \in AppIds \ {appid} :
          Cycle(sy, ey, option, geojson_str, k, NoneChoice, checked)

SelectPolygon ==
    /\ Fetches(app, option, appid)
    /\ \E c \in Choices(catalog) \ {choice} :
          Cycle(sy, ey, option, geojson_str, appid, c, checked)

ToggleLayer ==
    /\ \E i \in 1..Len(sidebar) : sidebar[i].text = "## Select Layers"
    /\ \E l \in AllLayers :
          Cycle(sy, ey, option, geojson_str, appid, choice,
                IF l \in checked THEN checked \ {l} ELSE checked \cup {l})

Next ==
    \/ Rerun
    \/ SetStartYear
    \/ SetEndYear
    \/ SetOption
    \/ SetText
    \/ SetAppId
    \/ SelectPolygon
    \/ ToggleLayer

Spec == Init /\ [][Next]_vars

-----------------------------------------------------------------------------
(* The year sliders and the query builder: the script run after every      *)
(* change of a slider or of the boundary, on a backend that holds n images *)
(* and answers every mean with the threshold (none when n = 0).            *)

QuietAnswers(n) ==
    [k \in AllLayers |-> IF n = 0 THEN MeanFault("EEException") ELSE Mean(thresholds[k])]

QuietCycle(nsy, ney, nopt, ntext, nkey, nch) ==
    \E resp \in IF Fetches(app, nopt, nkey) THEN CycleResponses ELSE {NotRequested} :
      \E out \in {get_custom_geometry(app, nopt, ntext, nkey, resp, nch)} :
        \E n \in 0..MaxImages :
            Render(nsy, ney, nopt, ntext, nkey, nch, checked, resp, out, QuietAnswers(n), n)

MoveStartYear ==
    \E y \in StartYearRange \ {sy} :
        QuietCycle(y, MaxYear, option, geojson_str, appid, choice)

MoveEndYear ==
    \E y \in EndYearRange(sy) \ {ey} :
        QuietCycle(sy, y, option, geojson_str, appid, choice)

PickBoundary ==
    \E o \in RadioOptions(app) \ {option} :
        QuietCycle(sy, ey, o, EmptyText, appid, NoneChoice)

PasteText ==
    /\ option = "Custom GeoJSON"
    /\ \E t \in (CycleTexts \cup {EmptyText}) \ {geojson_str} :
          QuietCycle(sy, ey, option, t, appid, choice)

TypeAppId ==
    /\ app = "app3"
    /\ \E k \in AppIds \ {appid} :
          QuietCycle(sy, ey, option, geojson_str, k, NoneChoice)

PickPolygon ==
    /\ Fetches(app, option, appid)
    /\ \E c \in Choices(catalog) \ {choice} :
          QuietCycle(sy, ey, option, geojson_str, appid, c)

NextYears ==
    \/ MoveStartYear
    \/ MoveEndYear
    \/ PickBoundary
    \/ PasteText
    \/ TypeAppId
    \/ PickPolygon

SpecYears == Init /\ [][NextYears]_vars

-----------------------------------------------------------------------------
(* The threshold evaluator on its own: render_sidebar_metrics called once  *)
(* on any selection and any answers of the region reduction.               *)

(* Means around each threshold, in units of 1/10000.                       *)
MeanValues ==
    [FAI |-> {499, 500, 600}, MCI |-> {100, 200, 201}, Turbidity |-> {17000, 18000, 18001}]

Answers(k) == {Mean(v) : v \in MeanValues[k]} \cup {MeanFault("EEException"), MeanFault("TypeError")}

Scripts == Apps \cup {"app"}

InitMetrics ==
    /\ app \in Scripts
    /\ sy = DefaultStart
    /\ ey = MaxYear
    /\ option = "Default Lake"
    /\ geojson_str = EmptyText
    /\ appid = ""
    /\ choice = NoneChoice
    /\ checked \in SUBSET AllLayers
    /\ aoi = get_default_geometry
    /\ query = NoQuery
    /\ sidebar = <<>>
    /\ page = <<>>
    /\ raised = "none"
    /\ catalog = NotRequested
    /\ calls = <<>>
    /\ backend \in {t \in [AllLayers -> UNION {Answers(k) : k \in AllLayers}] :
                       \A k \in AllLayers : t[k] \in Answers(k)}
    /\ means = <<>>
    /\ alerts = <<>>
    /\ nimages = 1
    /\ img = NoImage
    /\ applied = 0
    /\ thresh = thresholds

SummariseMetrics ==
    LET m == render_sidebar_metrics(app, SelectedLayers(checked), backend, thresh)
    IN  /\ app \in Apps
        /\ sidebar = <<>>
        /\ sidebar' = m.msgs
        /\ raised' = m.exc
        /\ calls' = m.reqs
        /\ means' = m.means
        /\ alerts' = m.alerts
        /\ UNCHANGED <<app, sy, ey, option, geojson_str, appid, choice, checked, aoi, query,
                       page, catalog, backend, nimages, img, applied, thresh>>

(* app.py: the means and the alert block, on the page.                     *)
ShowMeans ==
    /\ app = "app"
    /\ calls = <<>>
    /\ \E m \in {show_means(backend)} :
          /\ page' = m.msgs
          /\ raised' = m.exc
          /\ calls' = m.reqs
          /\ means' = m.means
          /\ alerts' = m.alerts
    /\ UNCHANGED <<app, sy, ey, option, geojson_str, appid, choice, checked, aoi, query,
                   sidebar, catalog, backend, nimages, img, applied, thresh>>

NextMetrics ==
    \/ SummariseMetrics
    \/ ShowMeans

SpecMetrics == InitMetrics /\ [][NextMetrics]_vars

-----------------------------------------------------------------------------
(* The AOI resolver on its own: get_custom_geometry called once with any   *)
(* widget values and any answer of the catalog.                            *)

InitAOI ==
    /\ app \in Apps
    /\ sy = DefaultStart
    /\ ey = MaxYear
    /\ option \in RadioOptions(app)
    /\ geojson_str \in IF option = "Custom GeoJSON" THEN Texts ELSE {EmptyText}
    /\ appid \in AppIds
    /\ catalog \in IF Fetches(app, option, appid) THEN Responses ELSE {NotRequested}
    /\ choice \in IF Fetches(app, option, appid) THEN Choices(catalog) ELSE {NoneChoice}
    /\ checked = AllLayers
    /\ aoi = JNull
    /\ query = NoQuery
    /\ sidebar = <<>>
    /\ page = <<>>
    /\ raised = "none"
    /\ calls = <<>>
    /\ backend = NoAnswers
    /\ means = <<>>
    /\ alerts = <<>>
    /\ nimages = 0
    /\ img = NoImage
    /\ applied = 0
    /\ thresh = thresholds

ResolveAOI ==
    LET out == get_custom_geometry(app, option, geojson_str, appid, catalog, choice)
    IN  /\ sidebar = <<>>
        /\ aoi' = out.val
        /\ sidebar' = out.msgs
        /\ raised' = out.exc
        /\ calls' = out.reqs
        /\ UNCHANGED <<app, sy, ey, option, geojson_str, appid, choice, catalog,
                       checked, query, page, backend, means, alerts, nimages, img, applied, thresh>>

NextAOI == ResolveAOI

SpecAOI == InitAOI /\ [][NextAOI]_vars

-----------------------------------------------------------------------------
(* Properties of the AOI resolver.                                         *)

Resolved == sidebar # <<>>
Shows(kind) == \E i \in 1..Len(sidebar) : sidebar[i].kind = kind
FirstVertex == Pos("77.6392446351248", "12.921051012051585")

IsDefault(g) ==
    /\ g = get_default_geometry
    /\ g.coordinates.v[1].v[1] = FirstVertex

(* A closed polygon ring of at least 4 points.                             *)
ClosedRing(ps) == Len(ps) >= 4 /\ ps[1] = ps[Len(ps)]
IsClosedPolygon(g) ==
    /\ g.type = "Polygon"
    /\ Len(g.coordinates.v) >= 1
    /\ \A i \in 1..Len(g.coordinates.v) : ClosedRing(g.coordinates.v[i].v)

(* C2 as stated: in Custom GeoJSON mode every text that is not parseable   *)
(* as JSON (the empty text included) or parses to a document that holds no *)
(* geometry gives the default polygon, an error message in the sidebar and *)
(* no exception.                                                           *)
C2_AsStated ==
    (Resolved /\ option = "Custom GeoJSON" /\ geojson_str \in {EmptyText} \cup MalformedTexts)
        => (raised = "none" /\ IsDefault(aoi) /\ Shows("error"))

(* C2 amended: every malformed text gives the default polygon and no       *)
(* exception; a non-empty one also gives an error message in the sidebar,  *)
(* the empty text none (app2 shows an info message there, app3 nothing).   *)
C2_MalformedFallsBack ==
    (Resolved /\ option = "Custom GeoJSON" /\ geojson_str \in {EmptyText} \cup MalformedTexts)
        => /\ raised = "none"
           /\ IsDefault(aoi)
           /\ Shows("error") <=> geojson_str # EmptyText
           /\ Shows("info") <=> (geojson_str = EmptyText /\ app = "app2")

C2_Witness ==
    /\ Resolved /\ option = "Custom GeoJSON"
    /\ geojson_str = Dumps(JObj([features |-> JList(<<>>)]))
    /\ IsDefault(aoi) /\ Shows("error") /\ raised = "none"

(* The catalog answers that are transport faults, and the lookups that end *)
(* in not-found: nothing selected, or an empty catalog.                    *)
TransportFaults ==
    {Unreachable, Response(401, Dumps(JObj([message |-> JStr("Invalid API key")]))),
     Response(500, GarbageText), Response(200, GarbageText)}
NotFound == catalog \in Responses \ TransportFaults /\ SelectOptions(catalog) # <<>>
                /\ choice = NoneChoice

(* C3 as stated: in Saved Polygon mode a lookup that ends in not-found or  *)
(* in a transport fault gives the default geometry, a message in the       *)
(* sidebar and no exception.                                               *)
C3_FaultsAbsorbed ==
    (Resolved /\ option = "Saved Polygon" /\ appid # ""
        /\ (catalog \in TransportFaults \/ NotFound))
        => (raised = "none" /\ IsDefault(aoi) /\ (Shows("info") \/ Shows("error")))

(* C4 as stated: every geometry the resolver returns is a closed polygon   *)
(* ring of at least 4 points.                                              *)
C4_ReturnsClosedPolygon ==
    (Resolved /\ raised = "none") => IsClosedPolygon(aoi)

(* C5: a valid closed polygon of at least 4 vertices pasted as a Feature   *)
(* or as a raw geometry comes back with the coordinate sequence of the     *)
(* parsed input.                                                           *)
C5_RoundTrip ==
    \A ps \in Rings :
        (/\ Resolved /\ option = "Custom GeoJSON" /\ ClosedRing(ps)
         /\ geojson_str \in {Dumps(PolygonGeom(ps)), Dumps(Feature(PolygonGeom(ps)))})
        => (raised = "none" /\ aoi = EeGeometry("Polygon", JList(<<RingOf(ps)>>)))

C5_Witness ==
    /\ Resolved /\ option = "Custom GeoJSON"
    /\ geojson_str = Dumps(Feature(PolygonGeom(ClosedSquare)))
    /\ aoi.coordinates.v[1].v = ClosedSquare

-----------------------------------------------------------------------------
(* The band algebra on its own: add_fai_mci_turbidity applied to an image  *)
(* of the collection, and again to its own result.                        *)

MaxApply == 2

(* Raw Sentinel-2 reflectances (0-10000) a pixel can hold, per band.       *)
RawValues ==
    [B4 |-> {0, 2000, 2500}, B8 |-> {4000, 1000}, B11 |-> {3000, 2000},
     B5 |-> {2500, 1800}, B6 |-> {3200, 2000}, B2 |-> {1500}]

RawImages ==
    { <<Band("B2", Num(b2)), Band("B4", Num(b4)), Band("B5", Num(b5)),
        Band("B6", Num(b6)), Band("B8", Num(b8)), Band("B11", Num(b11))>> :
        b2 \in RawValues.B2, b4 \in RawValues.B4, b5 \in RawValues.B5,
        b6 \in RawValues.B6, b8 \in RawValues.B8, b11 \in RawValues.B11 }

InitIdx ==
    /\ app \in Apps
    /\ sy = DefaultStart
    /\ ey = MaxYear
    /\ option = "Default Lake"
    /\ geojson_str = EmptyText
    /\ appid = ""
    /\ choice = NoneChoice
    /\ checked = AllLayers
    /\ aoi = JNull
    /\ query = NoQuery
    /\ sidebar = <<>>
    /\ page = <<>>
    /\ raised = "none"
    /\ catalog = NotRequested
    /\ calls = <<>>
    /\ backend = NoAnswers
    /\ means = <<>>
    /\ alerts = <<>>
    /\ nimages = 0
    /\ img \in RawImages
    /\ applied = 0
    /\ thresh = thresholds

ApplyIndices ==
    /\ applied < MaxApply
    /\ img' = add_fai_mci_turbidity(img)
    /\ applied' = applied + 1
    /\ UNCHANGED <<app, sy, ey, option, geojson_str, appid, choice, checked, aoi,
                   query, sidebar, page, raised, catalog, calls, backend, means,
                   alerts, nimages, thresh>>

NextIdx == ApplyIndices

SpecIdx == InitIdx /\ [][NextIdx]_vars

-----------------------------------------------------------------------------
(* Properties of the band algebra.                                         *)

Derived == {"FAI", "MCI", "Turbidity"}
BandVal(image, name) == select(image, name)[1].val
Raw(name) == BandVal(img, name).n
Applies == applied' = applied + 1

ExamplePixel ==
    /\ Raw("B4") = 2000 /\ Raw("B8") = 4000 /\ Raw("B11") = 3000
    /\ Raw("B5") = 2500 /\ Raw("B6") = 3200

(* C8: on bands divided by 10000, FAI = nir - (red + (swir - red) * (842 - *)
(* 665) / (1610 - 665)), MCI = b5 - b4 - (b6 - b4) * (40 / 75) with 40/75  *)
(* a real quotient, Turbidity = swir / red (red not 0); the example pixel  *)
(* gives FAI = 0.1813 to four places, MCI = -0.014, Turbidity = 1.5.       *)
C8_Formulas ==
    applied >= 1 =>
        /\ BandVal(img, "FAI")
              = Rat(945 * (Raw("B8") - Raw("B4")) - 177 * (Raw("B11") - Raw("B4")), 945 * 10000)
        /\ BandVal(img, "MCI")
              = Rat(75 * (Raw("B5") - Raw("B4")) - 40 * (Raw("B6") - Raw("B4")), 75 * 10000)
        /\ Raw("B4") # 0 => BandVal(img, "Turbidity") = Rat(Raw("B11"), Raw("B4"))
        /\ ExamplePixel =>
              /\ 18125 * BandVal(img, "FAI").d <= 100000 * BandVal(img, "FAI").n
              /\ 100000 * BandVal(img, "FAI").n < 18135 * BandVal(img, "FAI").d
              /\ BandVal(img, "MCI") = Rat(-14, 1000)
              /\ BandVal(img, "Turbidity") = Rat(15, 10)

C8_Witness ==
    /\ applied = 1 /\ ExamplePixel
    /\ BandVal(img, "MCI") = Rat(-14, 1000)
    /\ BandVal(img, "Turbidity") = Rat(15, 10)

KeepsOriginalBands == \A i \in 1..Len(img) : img'[i] = img[i]

AlreadyDerived == Derived \subseteq BandNames(img)

-----------------------------------------------------------------------------
(* Properties of the threshold evaluator and of the query builder.         *)

Summarised == \E i \in 1..Len(sidebar) : sidebar[i].text = "## Water Quality Summary"
Verdict == \E i \in 1..Len(sidebar) : sidebar[i].kind \in {"error", "success"}

(* C1: an index is in the alert list exactly when its mean is strictly     *)
(* greater than its threshold, and the alert list keeps the order of the   *)
(* selected indices; means 0.06, 0.01, 1.8 give exactly [FAI].             *)
C1_StrictThreshold ==
    (Summarised /\ raised = "none") =>
        /\ DOMAIN means = checked
        /\ alerts = SelectSeq(SelectedLayers(checked), LAMBDA k : means[k] > thresholds[k])
        /\ (checked = AllLayers /\ means = [FAI |-> 600, MCI |-> 100, Turbidity |-> 18000])
              => alerts = <<"FAI">>

C1_Witness ==
    /\ Summarised /\ raised = "none" /\ checked = AllLayers
    /\ means = [FAI |-> 600, MCI |-> 100, Turbidity |-> 18000]
    /\ alerts = <<"FAI">>

Queried == query # NoQuery

(* C6: the query's spatial filter is the AOI, its start date January 1 of  *)
(* the start year, its end date December 31 of the end year, its           *)
(* cloud-cover filter 'less than 10', however many images the backend      *)
(* holds.                                                                  *)
C6_QueryWindow ==
    Queried =>
        /\ query.bounds = aoi
        /\ query.start = [year |-> sy, month |-> 1, day |-> 1]
        /\ query.end = [year |-> ey, month |-> 12, day |-> 31]
        /\ query.filter = [op |-> "lt", property |-> "CLOUDY_PIXEL_PERCENTAGE", value |-> 10]

C6_Witness ==
    /\ Queried /\ sy = 2020 /\ ey = 2024 /\ nimages = 0
    /\ query.start = [year |-> 2020, month |-> 1, day |-> 1]
    /\ query.end = [year |-> 2024, month |-> 12, day |-> 31]

(* C7: the date range handed to the query builder satisfies                *)
(* 2016 <= startYear <= endYear <= 2024.                                   *)
C7_YearOrder ==
    /\ 2016 <= sy /\ sy <= ey /\ ey <= 2024
    /\ Queried => (/\ 2016 <= query.start.year
                   /\ query.start.year <= query.end.year
                   /\ query.end.year <= 2024)

C7_Witness == Queried /\ query.start.year = 2024 /\ query.end.year = 2024

-----------------------------------------------------------------------------
(* Properties of the render cycle.                                         *)

(* The selected indices in the order of the check boxes, and the positions *)
(* among them whose region reduction fails in this cycle.                  *)
Selection == SelectedLayers(checked)
FaultAt == {i \in 1..Len(Selection) : backend[Selection[i]].exc # "none"}
FirstFault == CHOOSE i \in FaultAt : \A j \in FaultAt : i <= j
AggregationFails == Summarised /\ FaultAt # {}
VerdictMsgs ==
    {AllClearMsg} \cup {AlertMsg(app, SelectedLayers(found)) : found \in (SUBSET AllLayers) \ {{}}}
ShowsVerdict == \E i \in 1..Len(sidebar) : sidebar[i] \in VerdictMsgs
ShowsOutputs == \E i \in 1..Len(page) : page[i].kind \in {"layer", "map", "legend"}

(* C11: when the aggregation call of a selected index fails in a cycle,    *)
(* the fault leaves main and ends the cycle: the page holds the fault and  *)
(* neither a map layer nor a legend, the sidebar holds no verdict, and the *)
(* only means shown are those this cycle obtained before the failing call. *)
C11_FaultAborts ==
    AggregationFails =>
        /\ raised = backend[Selection[FirstFault]].exc
        /\ page = <<Title, Traceback(raised)>>
        /\ ~ShowsVerdict
        /\ ~ShowsOutputs
        /\ alerts \in Seq(AllLayers) /\ \A i \in 1..Len(alerts) : alerts[i] \in DOMAIN means
        /\ DOMAIN means = {Selection[i] : i \in 1..(FirstFault - 1)}
        /\ \A k \in DOMAIN means : means[k] = backend[k].val

C11_Witness ==
    /\ AggregationFails /\ checked = AllLayers /\ FirstFault = 2
    /\ raised = "TypeError" /\ DOMAIN means = {"FAI"} /\ ~ShowsVerdict

(* The remote calls of a cycle.                                            *)
CycleRan == sidebar # <<>>
Count(seq, x) == Cardinality({i \in 1..Len(seq) : seq[i] = x})
MeanCall(k) == "mean:" \o k
AskedUpTo ==
    IF ~Summarised THEN 0
    ELSE IF FaultAt = {} THEN Len(Selection) ELSE FirstFault

(* C12 as stated: in one cycle the catalog is requested at most once, and  *)
(* only in Saved Polygon mode with a non-empty credential; the region mean *)
(* is requested exactly once for every selected index and never for an     *)
(* unselected one, whether or not an earlier call failed.                  *)
C12_AsStated ==
    CycleRan =>
        /\ Count(calls, "polygons") <= 1
        /\ Count(calls, "polygons") = 1 => Fetches(app, option, appid)
        /\ \A k \in AllLayers :
              Count(calls, MeanCall(k)) = IF k \in checked THEN 1 ELSE 0

(* C12 amended: no call is made twice in a cycle and none after a call     *)
(* that failed.  The catalog is requested once in Saved Polygon mode with  *)
(* a non-empty credential and not at all otherwise; the region mean is     *)
(* requested once, in selection order, for each selected index up to and   *)
(* including the first whose call fails, for no index after it, for none   *)
(* when the catalog request failed, and never for an unselected index.     *)
C12_OnceUntilFault ==
    CycleRan =>
        /\ calls = (IF Fetches(app, option, appid) THEN <<"polygons">> ELSE <<>>)
                      \o [i \in 1..AskedUpTo |-> MeanCall(Selection[i])]
        /\ \A k \in AllLayers : Count(calls, MeanCall(k)) <= 1
        /\ Summarised => \A k \in AllLayers \ checked : Count(calls, MeanCall(k)) = 0
        /\ (Summarised /\ FaultAt = {}) =>
              \A k \in checked : Count(calls, MeanCall(k)) = 1

C12_Witness ==
    /\ CycleRan /\ Fetches(app, option, appid) /\ Summarised
    /\ checked = AllLayers /\ FaultAt # {} /\ FirstFault = 2
    /\ calls = <<"polygons", "mean:FAI", "mean:MCI">>

-----------------------------------------------------------------------------
(* The thresholds mapping on its own: render_sidebar_metrics and, when it  *)
(* returned, describe_legends (main, app3.py 174 and 180) called with a    *)
(* mapping that holds any part of the three entries.                       *)

ThresholdMaps == {[k \in keys |-> thresholds[k]] : keys \in SUBSET AllLayers}

(* Means at and above each threshold.                                      *)
GoodAnswers ==
    {t \in [AllLayers -> UNION {{Mean(thresholds[k]), Mean(thresholds[k] + 1)} : k \in AllLayers}] :
        \A k \in AllLayers : t[k] \in {Mean(thresholds[k]), Mean(thresholds[k] + 1)}}

InitThresholds ==
    /\ app \in Apps
    /\ sy = DefaultStart
    /\ ey = MaxYear
    /\ option = "Default Lake"
    /\ geojson_str = EmptyText
    /\ appid = ""
    /\ choice = NoneChoice
    /\ checked \in SUBSET AllLayers
    /\ aoi = get_default_geometry
    /\ query = NoQuery
    /\ sidebar = <<>>
    /\ page = <<>>
    /\ raised = "none"
    /\ catalog = NotRequested
    /\ calls = <<>>
    /\ backend \in GoodAnswers
    /\ means = <<>>
    /\ alerts = <<>>
    /\ nimages = 1
    /\ img = NoImage
    /\ applied = 0
    /\ thresh \in ThresholdMaps

EvaluateThresholds ==
    /\ sidebar = <<>>
    /\ \E m \in {render_sidebar_metrics(app, SelectedLayers(checked), backend, thresh)} :
          /\ sidebar' = m.msgs
          /\ raised' = m.exc
          /\ calls' = m.reqs
          /\ means' = m.means
          /\ alerts' = m.alerts
    /\ UNCHANGED <<app, sy, ey, option, geojson_str, appid, choice, checked, aoi, query,
                   page, catalog, backend, nimages, img, applied, thresh>>

DescribeLegends ==
    /\ sidebar # <<>>
    /\ raised = "none"
    /\ page = <<>>
    /\ \E legend \in {describe_legends(app, Layers, thresh)} :
          /\ page' = <<Title>> \o display_layers(SelectedLayers(checked)) \o legend.msgs
                         \o (IF legend.exc # "none" THEN <<Traceback(legend.exc)>> ELSE <<>>)
          /\ raised' = legend.exc
    /\ UNCHANGED <<app, sy, ey, option, geojson_str, appid, choice, checked, aoi, query,
                   sidebar, catalog, calls, backend, means, alerts, nimages, img, applied,
                   thresh>>

NextThresholds ==
    \/ EvaluateThresholds
    \/ DescribeLegends

SpecThresholds == InitThresholds /\ [][NextThresholds]_vars

(* Properties of the thresholds mapping.                                   *)
Missing == AllLayers \ DOMAIN thresh
Placeholder == \E i \in 1..Len(page) : \E k \in AllLayers :
                  page[i] \in {Msg("legend", k \o ": Alert if > N/A"),
                               Msg("legend", k \o ": Alert > N/A")}
LegendLines == {i \in 1..Len(page) : page[i].kind = "legend"}

(* C13 as stated: when a selected index has no entry in the thresholds     *)
(* mapping the summary ends in an error and shows no verdict, and when an  *)
(* index of the legend has no entry the legend ends in an error, with no   *)
(* line for that index and no placeholder.                                 *)
C13_FailsFast ==
    /\ (sidebar # <<>> /\ checked \cap Missing # {}) =>
            (raised = "KeyError" /\ ~ShowsVerdict /\ page = <<>>)
    /\ (page # <<>> /\ Missing # {}) =>
            (raised = "KeyError" /\ ~Placeholder /\ Cardinality(LegendLines) < Len(Layers))

(* The verdict of a cycle.                                                 *)
Verdicts == {i \in 1..Len(sidebar) : sidebar[i] \in VerdictMsgs}
Exceeding == SelectSeq(Selection, LAMBDA k : backend[k].val > thresholds[k])
AllSucceed == \A k \in checked : backend[k].exc = "none"
ScriptVerdicts == {i \in 1..Len(page) : page[i] \in {BloomMsg, SafeMsg}}
ScriptSucceeds == backend["FAI"].exc = "none" /\ backend["MCI"].exc = "none"
ScriptExceeds == backend["FAI"].val > thresholds["FAI"] \/ backend["MCI"].val > thresholds["MCI"]

(* C14: a cycle in which every aggregation succeeds shows exactly one      *)
(* verdict message: the alert, naming exactly the selected indices whose   *)
(* mean exceeds the threshold, if there is such an index, and the          *)
(* all-clear otherwise, also when no index is selected; app.py, which has  *)
(* no selection, shows its alert heading if FAI or MCI exceeds and its     *)
(* all-clear otherwise.                                                    *)
C14_OneVerdict ==
    /\ (app \in Apps /\ Summarised /\ AllSucceed) =>
          /\ Cardinality(Verdicts) = 1
          /\ \A i \in Verdicts :
                sidebar[i] = IF Exceeding # <<>> THEN AlertMsg(app, Exceeding) ELSE AllClearMsg
          /\ checked = {} => \A i \in Verdicts : sidebar[i] = AllClearMsg
          /\ \A i \in 1..Len(alerts) : alerts[i] \in checked
    /\ (app = "app" /\ page # <<>> /\ ScriptSucceeds) =>
          /\ Cardinality(ScriptVerdicts) = 1
          /\ \A i \in ScriptVerdicts : page[i] = IF ScriptExceeds THEN BloomMsg ELSE SafeMsg
          /\ \A k \in {"FAI", "MCI"} :
                (\E i \in 1..Len(page) : page[i] = AboveMsg(k))
                    <=> backend[k].val > thresholds[k]

C14_Witness ==
    /\ app = "app3" /\ Summarised /\ checked = {} /\ AllSucceed
    /\ sidebar[Len(sidebar)] = AllClearMsg
    /\ backend["FAI"].exc = "none" /\ backend["FAI"].val > thresholds["FAI"]

====
